---- MODULE Spec2Model ----
(***************************************************************************)
(* DifyGate: the WhatsApp webhook -> Dify streaming relay.                 *)
(*                                                                         *)
(* One webhook POST is followed through the handler                        *)
(* (HandleWhatsAppWebhookPost), the processing goroutine it spawns         *)
(* (processWhatsAppMessage, in its two source variants) and the streaming  *)
(* producer goroutine (DifyChatMessageStreaming) with its two channels.    *)
(*                                                                         *)
(* variant = "interval" is src/gateapi/wa_webhook.go (interval/size        *)
(* thresholds, acknowledgement message, 60 s deadline); variant = "idle"   *)
(* is the second file of src/unnamed/part_001 (idle-timer flush, error     *)
(* events, 120 s deadline).                                                *)
(***************************************************************************)
EXTENDS Integers, Sequences, FiniteSets, TLC

VARIABLES
    variant,        \* which processWhatsAppMessage source is running
    appSecret,      \* DIFYGATE_WHATSAPP_APP_SECRET ("" = unset)
    env,            \* the other environment variables: DIFYGATE_WEBHOOK_VERIFY_TOKEN,
                    \* DIFYGATE_API_KEY, and whether the SMTP credentials are set
    other,          \* a second task, spawned for another POST, while it is not
                    \* the one running: all that its request, task and producer own
    apiOk,          \* the messaging API answers the next call with success
    areq,           \* a call looked at on its own: a request to another endpoint
                    \* (GET webhook, a protected route) or a call of sendReplyMessage
    apc,            \* position of that call
    aresp,          \* the response to it, with what the handlers did
    req,            \* the POST being handled: [body, header, readOk]
    hpc,            \* handler position
    status,         \* HTTP status written by the handler (0 = none yet)
    spawned,        \* number of processWhatsAppMessage goroutines started
    readCall,       \* markMessageAsRead's HTTP call: "none", "inflight", "returned"
    tpc,            \* processing task position
    sel,            \* the task's select: "none", "parked" or the committed case
    fullAnswer,     \* strings.Builder of the task
    lastChunkSize,  \* interval variant's lastChunkSize
    intervalPassed, \* time.Since(lastMessageSent) > minSendInterval
    ctx,            \* governing context: "none", "active", "deadline", "canceled"
    ppc,            \* producer goroutine position
    eventData,      \* producer's pending data payload (sequence of payload pieces)
    pending,        \* event the producer is handing to responseChan
    linesRead,      \* lines the scanner has returned so far
    parseErrors,    \* payloads processEvent has logged as failing to parse
    respChan,       \* buffered contents of responseChan
    respClosed,     \* close(responseChan) has run
    errChan,        \* buffered contents of errChan
    errClosed,      \* close(errChan) has run
    sends,          \* sendReplyMessage invocations of the task, in order
    outbound,       \* calls made to the messaging API, in order
    consumed,       \* events the task has received from responseChan, in order
    out,            \* text of the sendReplyMessage call in flight ("" when none)
    term,           \* the branch on which the task returned ("" while running)
    errPuts,        \* number of errors ever put on errChan
    upFail,         \* a connect, status or read error was put on errChan, context live
    deadlineMark    \* -1, or the sends begun when the deadline fired on a blocked task, mid-stream

vars == <<variant, appSecret, env, other, apiOk, areq, apc, aresp, req, hpc, status, spawned, readCall, tpc, sel, fullAnswer,
          lastChunkSize, intervalPassed, ctx, ppc, eventData, pending, linesRead,
          parseErrors, respChan, respClosed, errChan, errClosed, sends, outbound, consumed,
          out, term, errPuts, upFail, deadlineMark>>

envVars == <<variant, appSecret, env, other, apiOk, areq, apc, aresp>>
handlerVars == <<req, hpc, status, spawned, readCall>>
taskVars == <<tpc, fullAnswer, lastChunkSize, intervalPassed, sends, consumed, out, term>>
prodVars == <<ppc, eventData, pending, linesRead, parseErrors>>
chanVars == <<respChan, respClosed, errChan, errClosed, errPuts, upFail>>

(***************************************************************************)
(* Bounds of the model.                                                    *)
(***************************************************************************)
\* lines the upstream stream may deliver before it ends
MaxLines == 4
\* capacity of responseChan in the model (the code allocates 100)
RespChanCap == 1
\* minChunkSize of the interval variant in the model (the code uses 50)
MinChunkInterval == 2
\* minChunkSize of the idle variant in the model (the code uses 100)
MinChunkIdle == 2

(***************************************************************************)
(* Program constants.                                                      *)
(***************************************************************************)
ErrChanCap == 1
MaxReplyLen == 4000
TruncatedLen == 3997

(***************************************************************************)
(* Webhook request data (WebhookRequest) and the inputs of the model.      *)
(***************************************************************************)
TextMsg == [from |-> "+4917", id |-> "wamid.1", text |-> "Hello", type |-> "text"]
ImageMsg == [from |-> "+4917", id |-> "wamid.2", text |-> "", type |-> "image"]
TextMsg2 == [from |-> "+4918", id |-> "wamid.3", text |-> "Hi", type |-> "text"]

Change(msgs) == [phone |-> "pn1", messages |-> msgs]
Entry(changes) == [changes |-> changes]

\* raw identifies the bytes of the body; json tells whether json.Unmarshal
\* accepts them; entry is what they decode to.
Body(raw, json, entry) == [raw |-> raw, json |-> json, entry |-> entry]

Bodies ==
    { Body(1, FALSE, <<>>),
      Body(2, TRUE, <<>>),
      Body(3, TRUE, <<Entry(<<>>)>>),
      Body(4, TRUE, <<Entry(<<Change(<<>>)>>)>>),
      Body(5, TRUE, <<Entry(<<Change(<<ImageMsg>>)>>)>>),
      Body(6, TRUE, <<Entry(<<Change(<<TextMsg, TextMsg2>>)>>)>>),
      Body(7, TRUE, <<Entry(<<Change(<<ImageMsg, TextMsg>>)>>)>>) }

Secrets == {"", "k"}

HexDigits == "0123456789abcdef"
Hex(n) == SubSeq(HexDigits, n + 1, n + 1)
KeyCode(secret) == IF secret = "" THEN 0 ELSE 10

\* hex.EncodeToString(hmac(sha256, secret, data)): an injective keyed digest
\* over the bodies and secrets of the model.
HmacHex(secret, data) == Hex(KeyCode(secret)) \o Hex(data.raw) \o Hex(15 - data.raw)

SigPrefix == "sha256="
HasPrefix(s, p) == Len(s) >= Len(p) /\ SubSeq(s, 1, Len(p)) = p
TrimPrefix(s, p) == IF HasPrefix(s, p) THEN SubSeq(s, Len(p) + 1, Len(s)) ELSE s

\* a comparison that stops after the first byte
HmacEqual_FirstByte(a, b) ==
    Len(a) > 0 /\ Len(b) > 0 /\ SubSeq(a, 1, 1) = SubSeq(b, 1, 1)

\* hmac.Equal: equal length and equal bytes
HmacEqual(a, b) == a = b

\* a verification that lets a request without the signature header through
VerifyWebhook_AbsentOK(data, hmacHeader) ==
    hmacHeader = "" \/ HmacEqual(TrimPrefix(hmacHeader, SigPrefix), HmacHex(appSecret, data))

VerifyWebhook(data, hmacHeader) ==
    LET hmacReceived == IF HasPrefix(hmacHeader, SigPrefix)
                        THEN TrimPrefix(hmacHeader, SigPrefix)
                        ELSE hmacHeader
        digest == HmacHex(appSecret, data)
    IN  HmacEqual(hmacReceived, digest)

Digests == { HmacHex(k, b) : k \in Secrets, b \in Bodies }

\* the value of a hex digit, and a digest with the digit at position i altered
HexVal(c) == CHOOSE n \in 0..15 : Hex(n) = c
AlterAt(d, i) ==
    SubSeq(d, 1, i - 1) \o Hex((HexVal(SubSeq(d, i, i)) + 1) % 16) \o SubSeq(d, i + 1, Len(d))
Altered == { AlterAt(d, i) : d \in Digests, i \in 1..3 }

\* values of X-Hub-Signature-256: absent, the bare prefix, digests of the
\* model's bodies and secrets and digests altered in one position, each with
\* and without the "sha256=" prefix
Headers ==
    {"", SigPrefix} \cup Digests \cup Altered
        \cup { SigPrefix \o d : d \in Digests \cup Altered }

NoReq == [body |-> Body(0, FALSE, <<>>), header |-> "", readOk |-> FALSE]
Requests == [body : Bodies, header : Headers, readOk : BOOLEAN]

\* entry[0].changes[0].value.messages, or <<>> when a level is missing
FirstMessages(body) ==
    IF Len(body.entry) > 0 /\ Len(body.entry[1].changes) > 0
    THEN body.entry[1].changes[1].messages
    ELSE <<>>

\* a check that looks for a text message anywhere in the first change
HasTextMessage_AnyPosition(body) ==
    \E i \in DOMAIN FirstMessages(body) : FirstMessages(body)[i].type = "text"

HasTextMessage(body) ==
    /\ Len(FirstMessages(body)) > 0
    /\ FirstMessages(body)[1].type = "text"

\* the arguments of processWhatsAppMessage for the request being handled
PhoneNumberID == req.body.entry[1].changes[1].phone
\* a handler that picks the last message of the list
Message_Last == FirstMessages(req.body)[Len(FirstMessages(req.body))]

Message == FirstMessages(req.body)[1]

(***************************************************************************)
(* Upstream events (StreamingChatResponse) and SSE lines.                  *)
(***************************************************************************)
Event(kind, answer, errorMsg) ==
    [json |-> TRUE, event |-> kind, answer |-> answer, error |-> errorMsg]

\* a data payload json.Unmarshal rejects
Garbage == [json |-> FALSE, event |-> "", answer |-> "", error |-> ""]
NoEvent == Event("", "", "")

Events ==
    { Event("message_start", "", ""),
      Event("message_delta", "a", ""),
      Event("message_delta", "bc", ""),
      Event("agent_message", "a", ""),
      Event("agent_message", "bc", ""),
      Event("message_end", "", ""),
      Event("error", "", "boom"),
      Event("ping", "", "") }

Payloads == Events \cup {Garbage}

\* the payloads a "data:" line may carry, given what is already pending: any
\* payload opens an event; the model draws a further line of the same event
\* from two
NextPayloads(data) ==
    IF data = <<>> THEN Payloads ELSE {Garbage, Event("message_end", "", "")}

\* a decoder that takes the first piece of any payload for an event
Decodes_Lenient(data) == Len(data) >= 1

\* json.Unmarshal(data, &response): the concatenated payload decodes only
\* when it is exactly one well-formed object
Decodes(data) == Len(data) = 1 /\ data[1].json

(***************************************************************************)
(* Outbound texts.                                                         *)
(***************************************************************************)
InitialResponse == "I'm processing your request..."
TimeoutMessage == "Sorry, the response took too long. Please try again later."
ErrorMessage(err) == "Sorry, I encountered an error: " \o err
ErrEventMessage(errorMsg) == "Error from AI: " \o errorMsg

ErrCreate == "failed to create streaming request"
ErrCommunicate == "failed to communicate with Dify API"
ErrStatus == "Dify API streaming error (status 500)"
ErrRead == "error reading SSE stream"

GraphAPIToken == "token"

\* the truncation of sendReplyMessage
Truncate(messageBody) ==
    IF Len(messageBody) > MaxReplyLen
    THEN SubSeq(messageBody, 1, TruncatedLen) \o "..."
    ELSE messageBody

\* a request posted to the messaging API, with whether the API accepted it
Reply(to, text, messageID) ==
    [api |-> "reply", to |-> to, text |-> text, messageID |-> messageID, ok |-> apiOk]
ReadReceipt(messageID) ==
    [api |-> "read", to |-> "", text |-> "", messageID |-> messageID, ok |-> apiOk]

\* a Go string is a string of bytes: a character outside ASCII takes several
\* bytes, written here as a lead byte "W" and continuation bytes "w"
Wide == "Www"

RECURSIVE Rep(_, _)
Rep(s, n) ==
    IF n = 0 THEN ""
    ELSE IF n % 2 = 0 THEN LET h == Rep(s, n \div 2) IN h \o h
    ELSE s \o Rep(s, n - 1)

\* the calls of sendReplyMessage looked at on their own, with texts around
\* its limit, in ASCII and in wide characters
SendCalls ==
    {[route |-> "sendReplyMessage", to |-> "+4917", text |-> t, messageID |-> "wamid.1"] :
        t \in {"", "a"}
              \cup {Rep("a", n) : n \in (TruncatedLen - 1)..(MaxReplyLen + 3)}
              \cup {Rep("a", MaxReplyLen + 100)}
              \cup {Rep(Wide, MaxReplyLen \div 3), Rep(Wide, MaxReplyLen \div 3 + 1),
                    "a" \o Rep(Wide, MaxReplyLen \div 3), Rep(Wide, MaxReplyLen + 1)}}

\* no request to another endpoint, and no response
NoApiReq == [route |-> "none"]
NoApiResp ==
    [status |-> 0, body |-> "", reached |-> FALSE, sendCalls |-> 0, sendErr |-> "",
     dialed |-> FALSE]

\* no second task
NoOther == [tpc |-> "none"]

\* none of the other environment variables is set
NoEnv == [verifyToken |-> "", apiKey |-> "", smtp |-> FALSE]

\* the calls sendReplyMessage makes to the messaging API: the interval
\* variant always posts; the idle variant skips an empty text and an unset token
SendReplyCalls(to, messageBody, messageID) ==
    IF variant = "idle" /\ (messageBody = "" \/ GraphAPIToken = "")
    THEN <<>>
    ELSE <<Reply(to, Truncate(messageBody), messageID)>>

(***************************************************************************)
(* Initial state: the process is up, no request has arrived.               *)
(***************************************************************************)
\* no webhook POST has arrived: no handler, no task, no producer
NoRelay ==
    /\ req = NoReq
    /\ hpc = "idle"
    /\ status = 0
    /\ spawned = 0
    /\ readCall = "none"
    /\ tpc = "none"
    /\ sel = "none"
    /\ fullAnswer = ""
    /\ lastChunkSize = 0
    /\ intervalPassed = TRUE
    /\ ctx = "none"
    /\ ppc = "none"
    /\ eventData = <<>>
    /\ pending = NoEvent
    /\ linesRead = 0
    /\ parseErrors = 0
    /\ respChan = <<>>
    /\ respClosed = FALSE
    /\ errChan = <<>>
    /\ errClosed = FALSE
    /\ sends = <<>>
    /\ outbound = <<>>
    /\ consumed = <<>>
    /\ out = ""
    /\ term = ""
    /\ errPuts = 0
    /\ upFail = FALSE
    /\ deadlineMark = -1

Init ==
    /\ variant \in {"interval", "idle"}
    /\ appSecret \in Secrets
    /\ env = NoEnv
    /\ other = NoOther
    /\ apiOk = TRUE
    /\ areq = NoApiReq
    /\ apc = "none"
    /\ aresp = NoApiResp
    /\ NoRelay

(***************************************************************************)
(* HandleWhatsAppWebhookPost                                               *)
(***************************************************************************)
\* a POST reaches the handler
Receive ==
    /\ hpc = "idle"
    /\ \E r \in Requests : req' = r
    /\ hpc' = "recv"
    /\ UNCHANGED <<envVars, status, spawned, readCall, sel, ctx, outbound,
                   deadlineMark, taskVars, prodVars, chanVars>>

Respond(code) ==
    /\ status' = code
    /\ hpc' = "done"

\* io.ReadAll fails: 400 before the signature is looked at
HandlePostReadError ==
    /\ hpc = "recv"
    /\ ~req.readOk
    /\ Respond(400)
    /\ UNCHANGED <<envVars, req, spawned, readCall, sel, ctx, outbound,
                   deadlineMark, taskVars, prodVars, chanVars>>

\* the signature does not verify: 403
HandlePostForbidden ==
    /\ hpc = "recv"
    /\ req.readOk
    /\ ~VerifyWebhook(req.body, req.header)
    /\ Respond(403)
    /\ UNCHANGED <<envVars, req, spawned, readCall, sel, ctx, outbound,
                   deadlineMark, taskVars, prodVars, chanVars>>

\* json.Unmarshal fails: 400
HandlePostBadJSON ==
    /\ hpc = "recv"
    /\ req.readOk
    /\ VerifyWebhook(req.body, req.header)
    /\ ~req.body.json
    /\ Respond(400)
    /\ UNCHANGED <<envVars, req, spawned, readCall, sel, ctx, outbound,
                   deadlineMark, taskVars, prodVars, chanVars>>

\* a handler that answers a message it does not support with 400
HandlePostNoText_400 ==
    /\ hpc = "recv"
    /\ req.readOk
    /\ VerifyWebhook(req.body, req.header)
    /\ req.body.json
    /\ ~HasTextMessage(req.body)
    /\ Respond(400)
    /\ UNCHANGED <<envVars, req, spawned, readCall, sel, ctx, outbound,
                   deadlineMark, taskVars, prodVars, chanVars>>

\* no first message, or it is not of type "text": 200 and nothing else
HandlePostNoText ==
    /\ hpc = "recv"
    /\ req.readOk
    /\ VerifyWebhook(req.body, req.header)
    /\ req.body.json
    /\ ~HasTextMessage(req.body)
    /\ Respond(200)
    /\ UNCHANGED <<envVars, req, spawned, readCall, sel, ctx, outbound,
                   deadlineMark, taskVars, prodVars, chanVars>>

\* first position of processWhatsAppMessage: the interval variant starts by
\* sending the acknowledgement, the idle variant has it commented out
TaskStart == IF variant = "interval" THEN "ack" ELSE "init"

\* a text message: go h.processWhatsAppMessage(...)
HandlePostSpawn ==
    /\ hpc = "recv"
    /\ req.readOk
    /\ VerifyWebhook(req.body, req.header)
    /\ req.body.json
    /\ HasTextMessage(req.body)
    /\ spawned' = spawned + 1
    /\ tpc' = TaskStart
    /\ hpc' = "spawned"
    /\ UNCHANGED <<envVars, req, status, readCall, sel, ctx, outbound,
                   deadlineMark, fullAnswer, lastChunkSize, intervalPassed, sends,
                   consumed, out, term, prodVars, chanVars>>

\* the handler calls markMessageAsRead, whose client.Do posts the read
\* receipt and waits for the messaging API to answer
MarkReadCall ==
    /\ hpc = "spawned"
    /\ outbound' = Append(outbound, ReadReceipt(Message.id))
    /\ readCall' = "inflight"
    /\ hpc' = "markread"
    /\ UNCHANGED <<envVars, req, status, spawned, sel, ctx,
                   deadlineMark, taskVars, prodVars, chanVars>>

\* a handler that waits for the task it spawned before it answers
MarkReadAndRespond_Join ==
    /\ hpc = "markread"
    /\ tpc = "done"
    /\ readCall' = "returned"
    /\ Respond(200)
    /\ UNCHANGED <<envVars, req, spawned, sel, ctx, outbound,
                   deadlineMark, taskVars, prodVars, chanVars>>

\* client.Do returns (a response or an error), markMessageAsRead returns and
\* the handler writes 200
MarkReadAndRespond ==
    /\ hpc = "markread"
    /\ readCall' = "returned"
    /\ Respond(200)
    /\ UNCHANGED <<envVars, req, spawned, sel, ctx, outbound,
                   deadlineMark, taskVars, prodVars, chanVars>>

(***************************************************************************)
(* processWhatsAppMessage                                                  *)
(***************************************************************************)
\* a goroutine parked in select is committed to the first case that becomes
\* ready; one that is not parked is unaffected
Wake(c) == IF sel = "parked" THEN c ELSE sel

CtxDone == ctx \in {"deadline", "canceled"}

\* the select cases that can proceed at once (time.After is never among them)
ReadyCases ==
    { c \in {"err", "resp", "ctx"} :
        \/ c = "err" /\ (Len(errChan) > 0 \/ errClosed)
        \/ c = "resp" /\ (Len(respChan) > 0 \/ respClosed)
        \/ c = "ctx" /\ CtxDone }

\* the arguments of one sendReplyMessage(phoneNumberID, from, text, messageID)
SendRec(text) ==
    [phoneNumberID |-> PhoneNumberID, to |-> Message.from, text |-> text,
     messageID |-> Message.id]

\* the task calls sendReplyMessage, which makes its calls to the messaging API
Invoke(text) ==
    /\ sends' = Append(sends, SendRec(text))
    /\ outbound' = outbound \o SendReplyCalls(Message.from, text, Message.id)

\* return from processWhatsAppMessage; the deferred cancel() runs
Return(how) ==
    /\ tpc' = "done"
    /\ term' = how
    /\ ctx' = IF ctx = "active" THEN "canceled" ELSE ctx

\* interval variant: the acknowledgement send
TaskAck ==
    /\ tpc = "ack"
    /\ Invoke(InitialResponse)
    /\ tpc' = "init"
    /\ UNCHANGED <<envVars, handlerVars, sel, fullAnswer, lastChunkSize, intervalPassed,
                   consumed, out, term, ctx, prodVars, chanVars, deadlineMark>>

\* context.WithTimeout and DifyChatMessageStreaming: the channels exist and
\* the producer goroutine is started
TaskInit ==
    /\ tpc = "init"
    /\ ctx' = "active"
    /\ ppc' = "new"
    /\ tpc' = "select"
    /\ UNCHANGED <<envVars, handlerVars, sel, fullAnswer, lastChunkSize, intervalPassed,
                   sends, consumed, out, term, eventData, pending, linesRead, parseErrors, chanVars,
                   outbound, deadlineMark>>

\* a select that always takes the error channel's case when it is ready
Poll_ErrFirst ==
    /\ tpc = "select"
    /\ sel = "none"
    /\ \/ "err" \in ReadyCases /\ sel' = "err"
       \/ "err" \notin ReadyCases /\ \E c \in ReadyCases : sel' = c
       \/ ReadyCases = {} /\ sel' = "parked"
    /\ UNCHANGED <<envVars, handlerVars, taskVars, ctx, prodVars, chanVars,
                   outbound, deadlineMark>>

\* (a select that is evaluated while a send has not returned yet)
Poll_DuringSend ==
    /\ tpc \notin {"none", "ack", "init", "done"}
    /\ sel = "none"
    /\ \/ \E c \in ReadyCases : sel' = c
       \/ ReadyCases = {} /\ sel' = "parked"
    /\ UNCHANGED <<envVars, handlerVars, taskVars, ctx, prodVars, chanVars, outbound,
                   deadlineMark>>

\* the select statement is evaluated: one ready case is chosen, or the
\* goroutine parks
Poll ==
    /\ tpc = "select"
    /\ sel = "none"
    /\ \/ \E c \in ReadyCases : sel' = c
       \/ ReadyCases = {} /\ sel' = "parked"
    /\ UNCHANGED <<envVars, handlerVars, taskVars, ctx, prodVars, chanVars,
                   outbound, deadlineMark>>

\* idle variant: time.After(15 * time.Second) fires while parked
IdleTimerFires ==
    /\ variant = "idle"
    /\ tpc = "select"
    /\ sel = "parked"
    /\ sel' = "idle"
    /\ UNCHANGED <<envVars, handlerVars, taskVars, ctx, prodVars, chanVars,
                   outbound, deadlineMark>>

\* case err, ok := <-errChan with !ok: continue
ErrCaseClosed ==
    /\ sel = "err"
    /\ errChan = <<>>
    /\ sel' = "none"
    /\ UNCHANGED <<envVars, handlerVars, taskVars, ctx, prodVars, chanVars,
                   outbound, deadlineMark>>

\* case err, ok := <-errChan with an error: the error message is sent
ErrCaseError ==
    /\ sel = "err"
    /\ errChan # <<>>
    /\ errChan' = Tail(errChan)
    /\ out' = ErrorMessage(Head(errChan))
    /\ tpc' = "send_error"
    /\ sel' = "none"
    /\ UNCHANGED <<envVars, handlerVars, fullAnswer, lastChunkSize, intervalPassed,
                   sends, consumed, term, ctx, prodVars, respChan, respClosed,
                   errClosed, errPuts, upFail, outbound, deadlineMark>>

SendErrorReturns ==
    /\ tpc = "send_error"
    /\ Invoke(out)
    /\ out' = ""
    /\ Return("errchan")
    /\ UNCHANGED <<envVars, handlerVars, sel, fullAnswer, lastChunkSize, intervalPassed,
                   consumed, prodVars, chanVars, deadlineMark>>

\* a close branch that returns without the final flush
RespCaseClosed_NoFlush ==
    /\ sel = "resp"
    /\ respChan = <<>>
    /\ sel' = "none"
    /\ Return("close")
    /\ UNCHANGED <<envVars, handlerVars, fullAnswer, lastChunkSize, intervalPassed,
                   sends, consumed, out, prodVars, chanVars, outbound, deadlineMark>>

\* case resp, ok := <-respChan with !ok: final flush of a non-empty buffer
RespCaseClosed ==
    /\ sel = "resp"
    /\ respChan = <<>>
    /\ sel' = "none"
    /\ IF Len(fullAnswer) > 0
       THEN /\ out' = fullAnswer
            /\ tpc' = "send_close"
            /\ UNCHANGED <<term, ctx>>
       ELSE /\ Return("close")
            /\ UNCHANGED out
    /\ UNCHANGED <<envVars, handlerVars, fullAnswer, lastChunkSize, intervalPassed,
                   sends, consumed, prodVars, chanVars, outbound, deadlineMark>>

SendCloseReturns ==
    /\ tpc = "send_close"
    /\ Invoke(out)
    /\ out' = ""
    /\ Return("close")
    /\ UNCHANGED <<envVars, handlerVars, sel, fullAnswer, lastChunkSize, intervalPassed,
                   consumed, prodVars, chanVars, deadlineMark>>

\* case <-ctx.Done(): the timeout notice is sent
\* (a timeout branch whose context is shared with the other task)
CtxCase_SharedContext ==
    /\ sel = "ctx"
    /\ sel' = "none"
    /\ out' = TimeoutMessage
    /\ tpc' = "send_timeout"
    /\ other' = IF other = NoOther THEN other ELSE [other EXCEPT !.ctx = ctx]
    /\ UNCHANGED <<variant, appSecret, env, apiOk, areq, apc, aresp, handlerVars, fullAnswer,
                   lastChunkSize, intervalPassed, sends, consumed, term, ctx, prodVars,
                   chanVars, outbound, deadlineMark>>

CtxCase ==
    /\ sel = "ctx"
    /\ sel' = "none"
    /\ out' = TimeoutMessage
    /\ tpc' = "send_timeout"
    /\ UNCHANGED <<envVars, handlerVars, fullAnswer, lastChunkSize, intervalPassed,
                   sends, consumed, term, ctx, prodVars, chanVars, outbound, deadlineMark>>

\* (a timeout branch that goes round the loop again instead of returning)
SendTimeoutReturns_Continue ==
    /\ tpc = "send_timeout"
    /\ Invoke(out)
    /\ out' = ""
    /\ tpc' = "select"
    /\ UNCHANGED <<envVars, handlerVars, sel, fullAnswer, lastChunkSize, intervalPassed,
                   consumed, term, ctx, prodVars, chanVars, deadlineMark>>

SendTimeoutReturns ==
    /\ tpc = "send_timeout"
    /\ Invoke(out)
    /\ out' = ""
    /\ Return("timeout")
    /\ UNCHANGED <<envVars, handlerVars, sel, fullAnswer, lastChunkSize, intervalPassed,
                   consumed, prodVars, chanVars, deadlineMark>>

\* case resp, ok := <-respChan with ok: the head of the channel is received
Recv ==
    /\ sel = "resp"
    /\ respChan # <<>>
    /\ respChan' = Tail(respChan)
    /\ consumed' = Append(consumed, Head(respChan))
    /\ sel' = "none"

IsIntervalContent(resp) == resp.event = "message_delta" /\ resp.answer # ""

\* the flush condition of the interval variant
ShouldFlush(currentSize) ==
    intervalPassed /\ (currentSize - lastChunkSize) >= MinChunkInterval

\* interval variant, message_delta with an answer: accumulate, maybe flush
IntervalDelta ==
    /\ variant = "interval"
    /\ Recv
    /\ IsIntervalContent(Head(respChan))
    /\ fullAnswer' = fullAnswer \o Head(respChan).answer
    /\ IF ShouldFlush(Len(fullAnswer'))
       THEN out' = fullAnswer' /\ tpc' = "send_partial"
       ELSE UNCHANGED <<out, tpc>>
    /\ UNCHANGED <<envVars, handlerVars, lastChunkSize, intervalPassed, sends, term,
                   ctx, prodVars, respClosed, errChan, errClosed, errPuts, upFail,
                   outbound, deadlineMark>>

\* the partial send returns: Reset, lastChunkSize = 0, lastMessageSent = now
SendPartialReturns ==
    /\ tpc = "send_partial"
    /\ Invoke(out)
    /\ out' = ""
    /\ fullAnswer' = ""
    /\ lastChunkSize' = 0
    /\ intervalPassed' = FALSE
    /\ tpc' = "select"
    /\ UNCHANGED <<envVars, handlerVars, sel, consumed, term, ctx, prodVars,
                   chanVars, deadlineMark>>

\* interval variant, message_end: the buffer is sent; the loop goes on
IntervalEnd ==
    /\ variant = "interval"
    /\ Recv
    /\ ~IsIntervalContent(Head(respChan))
    /\ Head(respChan).event = "message_end"
    /\ IF Len(fullAnswer) > 0
       THEN out' = fullAnswer /\ tpc' = "send_end"
       ELSE UNCHANGED <<out, tpc>>
    /\ UNCHANGED <<envVars, handlerVars, fullAnswer, lastChunkSize, intervalPassed,
                   sends, term, ctx, prodVars, respClosed, errChan, errClosed, errPuts, upFail,
                   outbound, deadlineMark>>

\* (a dropped event that also empties the buffer)
IntervalOther_Resets ==
    /\ variant = "interval"
    /\ Recv
    /\ ~IsIntervalContent(Head(respChan))
    /\ Head(respChan).event # "message_end"
    /\ fullAnswer' = ""
    /\ UNCHANGED <<envVars, handlerVars, tpc, lastChunkSize, intervalPassed,
                   sends, out, term, ctx, prodVars, respClosed, errChan, errClosed,
                   errPuts, upFail, outbound, deadlineMark>>

\* interval variant: any other event is dropped
IntervalOther ==
    /\ variant = "interval"
    /\ Recv
    /\ ~IsIntervalContent(Head(respChan))
    /\ Head(respChan).event # "message_end"
    /\ UNCHANGED <<envVars, handlerVars, tpc, fullAnswer, lastChunkSize, intervalPassed,
                   sends, out, term, ctx, prodVars, respClosed, errChan, errClosed,
                   errPuts, upFail, outbound, deadlineMark>>

\* the message_end send returns: the interval variant stays in the loop with
\* its buffer, the idle variant returns
SendEndReturns ==
    /\ tpc = "send_end"
    /\ Invoke(out)
    /\ out' = ""
    /\ IF variant = "interval"
       THEN tpc' = "select" /\ UNCHANGED <<term, ctx>>
       ELSE Return("message_end")
    /\ UNCHANGED <<envVars, handlerVars, sel, fullAnswer, lastChunkSize, intervalPassed,
                   consumed, prodVars, chanVars, deadlineMark>>

\* the clock passes minSendInterval since the last partial send
Tick ==
    /\ variant = "interval"
    /\ tpc \notin {"none", "done"}
    /\ ~intervalPassed
    /\ intervalPassed' = TRUE
    /\ UNCHANGED <<envVars, handlerVars, tpc, sel, fullAnswer, lastChunkSize, sends,
                   consumed, out, term, ctx, prodVars, chanVars, outbound, deadlineMark>>

\* (a message_start that leaves the buffer as it is)
IdleStart_KeepsBuffer ==
    /\ variant = "idle"
    /\ Recv
    /\ Head(respChan).event = "message_start"
    /\ UNCHANGED <<envVars, handlerVars, tpc, fullAnswer, lastChunkSize, intervalPassed, sends,
                   out, term, ctx, prodVars, respClosed, errChan, errClosed, errPuts, upFail,
                   outbound, deadlineMark>>

\* idle variant, message_start: the buffer is reset
IdleStart ==
    /\ variant = "idle"
    /\ Recv
    /\ Head(respChan).event = "message_start"
    /\ fullAnswer' = ""
    /\ UNCHANGED <<envVars, handlerVars, tpc, lastChunkSize, intervalPassed, sends,
                   out, term, ctx, prodVars, respClosed, errChan, errClosed, errPuts, upFail,
                   outbound, deadlineMark>>

\* idle variant, agent_message: a non-empty answer is appended
IdleAgent ==
    /\ variant = "idle"
    /\ Recv
    /\ Head(respChan).event = "agent_message"
    /\ fullAnswer' = IF Head(respChan).answer # ""
                     THEN fullAnswer \o Head(respChan).answer
                     ELSE fullAnswer
    /\ UNCHANGED <<envVars, handlerVars, tpc, lastChunkSize, intervalPassed, sends,
                   out, term, ctx, prodVars, respClosed, errChan, errClosed, errPuts, upFail,
                   outbound, deadlineMark>>

\* idle variant, message_end: final send of a non-empty buffer, then return
IdleEnd ==
    /\ variant = "idle"
    /\ Recv
    /\ Head(respChan).event = "message_end"
    /\ IF Len(fullAnswer) > 0
       THEN /\ out' = fullAnswer
            /\ tpc' = "send_end"
            /\ UNCHANGED <<term, ctx>>
       ELSE /\ Return("message_end")
            /\ UNCHANGED out
    /\ UNCHANGED <<envVars, handlerVars, fullAnswer, lastChunkSize, intervalPassed,
                   sends, prodVars, respClosed, errChan, errClosed, errPuts, upFail,
                   outbound, deadlineMark>>

\* idle variant, error event: the error text is sent, then return
IdleError ==
    /\ variant = "idle"
    /\ Recv
    /\ Head(respChan).event = "error"
    /\ out' = ErrEventMessage(Head(respChan).error)
    /\ tpc' = "send_errevent"
    /\ UNCHANGED <<envVars, handlerVars, fullAnswer, lastChunkSize, intervalPassed,
                   sends, term, ctx, prodVars, respClosed, errChan, errClosed, errPuts, upFail,
                   outbound, deadlineMark>>

SendErrEventReturns ==
    /\ tpc = "send_errevent"
    /\ Invoke(out)
    /\ out' = ""
    /\ Return("error_event")
    /\ UNCHANGED <<envVars, handlerVars, sel, fullAnswer, lastChunkSize, intervalPassed,
                   consumed, prodVars, chanVars, deadlineMark>>

\* idle variant: an event of no handled kind
IdleOther ==
    /\ variant = "idle"
    /\ Recv
    /\ Head(respChan).event \notin {"message_start", "agent_message", "message_end", "error"}
    /\ UNCHANGED <<envVars, handlerVars, tpc, fullAnswer, lastChunkSize, intervalPassed,
                   sends, out, term, ctx, prodVars, respClosed, errChan, errClosed,
                   errPuts, upFail, outbound, deadlineMark>>

\* idle variant, case <-time.After(...): flush a buffer of at least minChunkSize
IdleCase ==
    /\ sel = "idle"
    /\ sel' = "none"
    /\ IF Len(fullAnswer) >= MinChunkIdle
       THEN out' = fullAnswer /\ tpc' = "send_idle"
       ELSE UNCHANGED <<out, tpc>>
    /\ UNCHANGED <<envVars, handlerVars, fullAnswer, lastChunkSize, intervalPassed,
                   sends, consumed, term, ctx, prodVars, chanVars, outbound, deadlineMark>>

SendIdleReturns ==
    /\ tpc = "send_idle"
    /\ Invoke(out)
    /\ out' = ""
    /\ fullAnswer' = ""
    /\ tpc' = "select"
    /\ UNCHANGED <<envVars, handlerVars, sel, lastChunkSize, intervalPassed, consumed,
                   term, ctx, prodVars, chanVars, deadlineMark>>

(***************************************************************************)
(* DifyChatMessageStreaming: the producer goroutine                        *)
(***************************************************************************)
\* errChan <- err (blocks while the channel is full)
PutErr(e) ==
    /\ Len(errChan) < ErrChanCap
    /\ errChan' = Append(errChan, e)
    /\ errPuts' = errPuts + 1
    /\ upFail' = (upFail \/ (ctx = "active" /\ e # ErrCreate))
    /\ sel' = Wake("err")

\* http.NewRequestWithContext fails
ProdNewRequestFails ==
    /\ ppc = "new"
    /\ PutErr(ErrCreate)
    /\ ppc' = "close_err"
    /\ UNCHANGED <<envVars, handlerVars, taskVars, ctx, eventData, pending, linesRead, parseErrors,
                   respChan, respClosed, errClosed, outbound, deadlineMark>>

ProdNewRequest ==
    /\ ppc = "new"
    /\ ppc' = "do"
    /\ UNCHANGED <<envVars, handlerVars, taskVars, sel, ctx, eventData, pending,
                   linesRead, parseErrors, chanVars, outbound, deadlineMark>>

\* (a client.Do that reports its error and tries the request again)
ProdDoFails_Retry ==
    /\ ppc = "do"
    /\ PutErr(ErrCommunicate)
    /\ ppc' = "do"
    /\ UNCHANGED <<envVars, handlerVars, taskVars, ctx, eventData, pending, linesRead, parseErrors,
                   respChan, respClosed, errClosed, outbound, deadlineMark>>

\* client.Do returns an error (transport failure, or the context is done)
ProdDoFails ==
    /\ ppc = "do"
    /\ PutErr(ErrCommunicate)
    /\ ppc' = "close_err"
    /\ UNCHANGED <<envVars, handlerVars, taskVars, ctx, eventData, pending, linesRead, parseErrors,
                   respChan, respClosed, errClosed, outbound, deadlineMark>>

\* client.Do returns a response whose status is not 200
ProdDoStatus ==
    /\ ppc = "do"
    /\ ~CtxDone
    /\ PutErr(ErrStatus)
    /\ ppc' = "close_err"
    /\ UNCHANGED <<envVars, handlerVars, taskVars, ctx, eventData, pending, linesRead, parseErrors,
                   respChan, respClosed, errClosed, outbound, deadlineMark>>

\* client.Do returns 200: the scanner loop starts
ProdDoOK ==
    /\ ppc = "do"
    /\ ~CtxDone
    /\ ppc' = "scan"
    /\ UNCHANGED <<envVars, handlerVars, taskVars, sel, ctx, eventData, pending,
                   linesRead, parseErrors, chanVars, outbound, deadlineMark>>

\* the select on ctx.Done() that ends a loop iteration for a non-empty line:
\* the goroutine returns (its locals end with it) or scans on
AfterLine(data) ==
    IF CtxDone
    THEN ppc' = "close_err" /\ eventData' = <<>>
    ELSE ppc' = "scan" /\ eventData' = data

\* scanner.Scan returns an empty line: a pending payload goes to processEvent,
\* which drops it when it does not decode; no look at ctx (continue)
ProdScanBlank ==
    /\ ppc = "scan"
    /\ linesRead < MaxLines
    /\ linesRead' = linesRead + 1
    /\ eventData' = <<>>
    /\ IF Len(eventData) > 0 /\ Decodes(eventData)
       THEN pending' = eventData[1] /\ ppc' = "emit"
       ELSE UNCHANGED <<pending, ppc>>
    /\ parseErrors' = IF Len(eventData) > 0 /\ ~Decodes(eventData)
                      THEN parseErrors + 1
                      ELSE parseErrors
    /\ UNCHANGED <<envVars, handlerVars, taskVars, sel, ctx, chanVars, outbound,
                   deadlineMark>>

\* scanner.Scan returns a "data:" line: its payload is appended to eventData
ProdScanData ==
    /\ ppc = "scan"
    /\ linesRead < MaxLines
    /\ linesRead' = linesRead + 1
    /\ \E p \in NextPayloads(eventData) : AfterLine(Append(eventData, p))
    /\ UNCHANGED <<envVars, handlerVars, taskVars, sel, ctx, pending, parseErrors, chanVars,
                   outbound, deadlineMark>>

\* content events whose answer is empty
EmptyAnswers == { Event("message_delta", "", ""), Event("agent_message", "", "") }

\* scanner.Scan returns a "data:" line that opens a content event with an
\* empty answer
ProdScanEmptyAnswer ==
    /\ ppc = "scan"
    /\ linesRead < MaxLines
    /\ linesRead' = linesRead + 1
    /\ eventData = <<>>
    /\ \E p \in EmptyAnswers : AfterLine(Append(eventData, p))
    /\ UNCHANGED <<envVars, handlerVars, taskVars, sel, ctx, pending, parseErrors, chanVars,
                   outbound, deadlineMark>>

\* a content event whose answer is one character outside ASCII
WideAnswers == { Event("message_delta", Wide, "") }

\* scanner.Scan returns a "data:" line that opens a content event with an
\* answer outside ASCII
ProdScanWideAnswer ==
    /\ ppc = "scan"
    /\ linesRead < MaxLines
    /\ linesRead' = linesRead + 1
    /\ eventData = <<>>
    /\ \E p \in WideAnswers : AfterLine(Append(eventData, p))
    /\ UNCHANGED <<envVars, handlerVars, taskVars, sel, ctx, pending, parseErrors, chanVars,
                   outbound, deadlineMark>>

\* scanner.Scan returns a non-empty line that is not a "data:" line
ProdScanOther ==
    /\ ppc = "scan"
    /\ linesRead < MaxLines
    /\ linesRead' = linesRead + 1
    /\ AfterLine(eventData)
    /\ UNCHANGED <<envVars, handlerVars, taskVars, sel, ctx, pending, parseErrors,
                   chanVars, outbound, deadlineMark>>

\* processEvent: responseChan <- response (blocks while the channel is full)
ProdEmit ==
    /\ ppc = "emit"
    /\ Len(respChan) < RespChanCap
    /\ respChan' = Append(respChan, pending)
    /\ pending' = NoEvent
    /\ sel' = Wake("resp")
    /\ ppc' = "scan"
    /\ UNCHANGED <<envVars, handlerVars, taskVars, ctx, eventData, linesRead, parseErrors,
                   respClosed, errChan, errClosed, errPuts, upFail, outbound, deadlineMark>>

\* scanner.Scan returns false with no error: end of the stream
\* (a decoder that hands over the pending payload when the stream ends)
ProdScanEOF_EmitsPending ==
    /\ ppc = "scan"
    /\ eventData' = <<>>
    /\ IF Len(eventData) > 0 /\ Decodes(eventData)
       THEN pending' = eventData[1] /\ ppc' = "emit"
       ELSE ppc' = "close_err" /\ UNCHANGED pending
    /\ UNCHANGED <<envVars, handlerVars, taskVars, sel, ctx,
                   linesRead, parseErrors, chanVars, outbound, deadlineMark>>

ProdScanEOF ==
    /\ ppc = "scan"
    /\ ppc' = "close_err"
    /\ eventData' = <<>>
    /\ UNCHANGED <<envVars, handlerVars, taskVars, sel, ctx, pending,
                   linesRead, parseErrors, chanVars, outbound, deadlineMark>>

\* (a producer that reports a read error and goes on reading)
ProdScanError_KeepsReading ==
    /\ ppc = "scan"
    /\ PutErr(ErrRead)
    /\ ppc' = "scan"
    /\ eventData' = <<>>
    /\ UNCHANGED <<envVars, handlerVars, taskVars, ctx, pending, linesRead, parseErrors,
                   respChan, respClosed, errClosed, outbound, deadlineMark>>

\* scanner.Err is an error whose text lacks "context canceled" (a network
\* error, or "context deadline exceeded"): it is put on errChan
ProdScanError ==
    /\ ppc = "scan"
    /\ PutErr(ErrRead)
    /\ ppc' = "close_err"
    /\ eventData' = <<>>
    /\ UNCHANGED <<envVars, handlerVars, taskVars, ctx, pending, linesRead, parseErrors,
                   respChan, respClosed, errClosed, outbound, deadlineMark>>

\* scanner.Err is "context canceled": logged only
ProdScanCanceled ==
    /\ ppc = "scan"
    /\ ctx = "canceled"
    /\ ppc' = "close_err"
    /\ eventData' = <<>>
    /\ UNCHANGED <<envVars, handlerVars, taskVars, sel, ctx, pending,
                   linesRead, parseErrors, chanVars, outbound, deadlineMark>>

\* (a producer whose first deferred close is that of the response channel)
ProdCloseErr_RespFirst ==
    /\ ppc = "close_err"
    /\ respClosed' = TRUE
    /\ sel' = Wake("resp")
    /\ ppc' = "close_resp"
    /\ UNCHANGED <<envVars, handlerVars, taskVars, ctx, eventData, pending, linesRead, parseErrors,
                   respChan, errClosed, errChan, errPuts, upFail, outbound, deadlineMark>>

\* deferred close(errChan)
ProdCloseErr ==
    /\ ppc = "close_err"
    /\ errClosed' = TRUE
    /\ sel' = Wake("err")
    /\ ppc' = "close_resp"
    /\ UNCHANGED <<envVars, handlerVars, taskVars, ctx, eventData, pending, linesRead, parseErrors,
                   respChan, respClosed, errChan, errPuts, upFail, outbound, deadlineMark>>

\* deferred close(responseChan)
ProdCloseResp ==
    /\ ppc = "close_resp"
    /\ respClosed' = TRUE
    /\ sel' = Wake("resp")
    /\ ppc' = "exited"
    /\ UNCHANGED <<envVars, handlerVars, taskVars, ctx, eventData, pending, linesRead, parseErrors,
                   respChan, errChan, errClosed, errPuts, upFail, outbound, deadlineMark>>

(***************************************************************************)
(* The deadline of context.WithTimeout                                     *)
(***************************************************************************)
\* the producer is waiting on the upstream stream and nothing is queued
MidStream == ppc = "scan" /\ respChan = <<>> /\ errChan = <<>>

\* the task is in its loop, blocked: parked in the select, or inside the
\* sendReplyMessage call of a partial flush
TaskInLoop ==
    \/ tpc = "select" /\ sel = "parked"
    \/ tpc \in {"send_partial", "send_idle"}

DeadlineFires ==
    /\ ctx = "active"
    /\ ctx' = "deadline"
    /\ sel' = Wake("ctx")
    /\ deadlineMark' = IF MidStream /\ TaskInLoop
                       THEN Len(sends) + (IF tpc = "select" THEN 0 ELSE 1)
                       ELSE deadlineMark
    /\ UNCHANGED <<envVars, handlerVars, taskVars, prodVars, chanVars, outbound>>

HandlerNext ==
    \/ Receive
    \/ HandlePostReadError
    \/ HandlePostForbidden
    \/ HandlePostBadJSON
    \/ HandlePostNoText
    \/ HandlePostSpawn
    \/ MarkReadCall
    \/ MarkReadAndRespond

TaskNext ==
    \/ TaskAck
    \/ TaskInit
    \/ Poll
    \/ IdleTimerFires
    \/ ErrCaseClosed
    \/ ErrCaseError
    \/ SendErrorReturns
    \/ RespCaseClosed
    \/ SendCloseReturns
    \/ CtxCase
    \/ SendTimeoutReturns
    \/ IntervalDelta
    \/ SendPartialReturns
    \/ IntervalEnd
    \/ IntervalOther
    \/ SendEndReturns
    \/ IdleStart
    \/ IdleAgent
    \/ IdleEnd
    \/ IdleError
    \/ SendErrEventReturns
    \/ IdleOther
    \/ IdleCase
    \/ SendIdleReturns

ProducerNext ==
    \/ ProdNewRequestFails
    \/ ProdNewRequest
    \/ ProdDoFails
    \/ ProdDoStatus
    \/ ProdDoOK
    \/ ProdScanBlank
    \/ ProdScanData
    \/ ProdScanOther
    \/ ProdEmit
    \/ ProdScanEOF
    \/ ProdScanError
    \/ ProdScanCanceled
    \/ ProdCloseErr
    \/ ProdCloseResp

Next ==
    \/ HandlerNext
    \/ TaskNext
    \/ ProducerNext
    \/ DeadlineFires
    \/ Tick

Spec == Init /\ [][Next]_vars

\* Scheduling: every goroutine that can step eventually does, the timer of
\* context.WithTimeout fires, and a select that is evaluated again and again
\* with a case ready eventually takes that case (Go chooses among the ready
\* cases uniformly at random).
Fairness ==
    /\ WF_vars(TaskNext)
    /\ WF_vars(ProducerNext)
    /\ WF_vars(DeadlineFires)
    /\ SF_vars(Poll /\ sel' = "resp")
    /\ SF_vars(Poll /\ sel' = "ctx")

\* the state in which a spawned task starts when the handler has already
\* answered: a signed POST with a text message was received, the task was
\* spawned, the read receipt posted and 200 written
SignedTextRequest ==
    LET b == Body(6, TRUE, <<Entry(<<Change(<<TextMsg, TextMsg2>>)>>)>>)
    IN  [body |-> b, header |-> SigPrefix \o HmacHex("k", b), readOk |-> TRUE]

SpawnedWhen(ok, second) ==
    /\ variant \in {"interval", "idle"}
    /\ appSecret = "k"
    /\ env = NoEnv
    /\ other = second
    /\ apiOk = ok
    /\ areq = NoApiReq
    /\ apc = "none"
    /\ aresp = NoApiResp
    /\ req = SignedTextRequest
    /\ hpc = "done"
    /\ status = 200
    /\ spawned = 1
    /\ readCall = "returned"
    /\ tpc = TaskStart
    /\ sel = "none"
    /\ fullAnswer = ""
    /\ lastChunkSize = 0
    /\ intervalPassed = TRUE
    /\ ctx = "none"
    /\ ppc = "none"
    /\ eventData = <<>>
    /\ pending = NoEvent
    /\ linesRead = 0
    /\ parseErrors = 0
    /\ respChan = <<>>
    /\ respClosed = FALSE
    /\ errChan = <<>>
    /\ errClosed = FALSE
    /\ sends = <<>>
    /\ outbound = IF second = NoOther
                  THEN <<ReadReceipt(TextMsg.id)>>
                  ELSE <<ReadReceipt(TextMsg.id),
                         ReadReceipt(FirstMessages(second.req.body)[1].id)>>
    /\ consumed = <<>>
    /\ out = ""
    /\ term = ""
    /\ errPuts = 0
    /\ upFail = FALSE
    /\ deadlineMark = -1

\* ... with the messaging API reachable, as in Init
Spawned == SpawnedWhen(TRUE, NoOther)

\* the task, the producer and the clock from there on
RunNext ==
    \/ TaskNext
    \/ ProducerNext
    \/ DeadlineFires
    \/ Tick

FairSpec == Spawned /\ [][RunNext]_vars /\ Fairness

\* the same run over a stream that may also carry content events with an
\* empty answer
EmptyAnswerSpec == Spawned /\ [][RunNext \/ ProdScanEmptyAnswer]_vars

\* the same run over a stream that may also carry answers outside ASCII
WideAnswerSpec == Spawned /\ [][RunNext \/ ProdScanWideAnswer]_vars

\* the messaging API starts or stops answering with success: http.Client.Do
\* returns an error, or (second source) the status is not 200
ApiChanges ==
    /\ apiOk' = ~apiOk
    /\ UNCHANGED <<variant, appSecret, env, other, areq, apc, aresp, handlerVars, taskVars, prodVars,
                   chanVars, sel, ctx, outbound, deadlineMark>>

\* the run of a task against a messaging API that may fail at any call, the
\* mark-as-read call of the handler included
OutageSpec == (\E ok \in BOOLEAN : SpawnedWhen(ok, NoOther)) /\ [][RunNext \/ ApiChanges]_vars

\* what a request, its task and its producer own, for the task that runs
Own ==
    [req |-> req, hpc |-> hpc, status |-> status, spawned |-> spawned,
     readCall |-> readCall, tpc |-> tpc, sel |-> sel, fullAnswer |-> fullAnswer,
     lastChunkSize |-> lastChunkSize, intervalPassed |-> intervalPassed, ctx |-> ctx,
     ppc |-> ppc, eventData |-> eventData, pending |-> pending, linesRead |-> linesRead,
     parseErrors |-> parseErrors, respChan |-> respChan, respClosed |-> respClosed,
     errChan |-> errChan, errClosed |-> errClosed, sends |-> sends, consumed |-> consumed,
     out |-> out, term |-> term, errPuts |-> errPuts, upFail |-> upFail,
     deadlineMark |-> deadlineMark]

\* a second signed POST, from another sender, whose task has been spawned too
SecondRequest ==
    LET b == Body(8, TRUE, <<Entry(<<Change(<<TextMsg2>>)>>)>>)
    IN  [body |-> b, header |-> SigPrefix \o HmacHex("k", b), readOk |-> TRUE]

\* ... in the state in which its task starts
Parked(r) ==
    [req |-> r, hpc |-> "done", status |-> 200, spawned |-> 1, readCall |-> "returned",
     tpc |-> TaskStart, sel |-> "none", fullAnswer |-> "", lastChunkSize |-> 0,
     intervalPassed |-> TRUE, ctx |-> "none", ppc |-> "none", eventData |-> <<>>,
     pending |-> NoEvent, linesRead |-> 0, parseErrors |-> 0, respChan |-> <<>>,
     respClosed |-> FALSE, errChan |-> <<>>, errClosed |-> FALSE, sends |-> <<>>,
     consumed |-> <<>>, out |-> "", term |-> "", errPuts |-> 0, upFail |-> FALSE,
     deadlineMark |-> -1]

PairInit == SpawnedWhen(TRUE, Parked(SecondRequest))

\* the scheduler turns to the second task once the first one has given up
\* (upstream failure or timeout) with nothing read from its stream, and its
\* producer has exited
Switch ==
    /\ other.tpc \notin {"none", "done"}
    /\ tpc = "done"
    /\ term \in {"errchan", "timeout"}
    /\ ppc = "exited"
    /\ linesRead = 0
    /\ other' = Own
    /\ req' = other.req
    /\ hpc' = other.hpc
    /\ status' = other.status
    /\ spawned' = other.spawned
    /\ readCall' = other.readCall
    /\ tpc' = other.tpc
    /\ sel' = other.sel
    /\ fullAnswer' = other.fullAnswer
    /\ lastChunkSize' = other.lastChunkSize
    /\ intervalPassed' = other.intervalPassed
    /\ ctx' = other.ctx
    /\ ppc' = other.ppc
    /\ eventData' = other.eventData
    /\ pending' = other.pending
    /\ linesRead' = other.linesRead
    /\ parseErrors' = other.parseErrors
    /\ respChan' = other.respChan
    /\ respClosed' = other.respClosed
    /\ errChan' = other.errChan
    /\ errClosed' = other.errClosed
    /\ sends' = other.sends
    /\ consumed' = other.consumed
    /\ out' = other.out
    /\ term' = other.term
    /\ errPuts' = other.errPuts
    /\ upFail' = other.upFail
    /\ deadlineMark' = other.deadlineMark
    /\ UNCHANGED <<variant, appSecret, env, apiOk, areq, apc, aresp, outbound>>

PairSpec == PairInit /\ [][RunNext \/ Switch]_vars

\* sendReplyMessage called on its own
SendInit ==
    /\ variant \in {"interval", "idle"}
    /\ appSecret = "k"
    /\ env = NoEnv
    /\ other = NoOther
    /\ apiOk \in BOOLEAN
    /\ areq \in SendCalls
    /\ apc = "call"
    /\ aresp = NoApiResp
    /\ NoRelay

CallSendReply ==
    /\ apc = "call"
    /\ areq.route = "sendReplyMessage"
    /\ outbound' = outbound \o SendReplyCalls(areq.to, areq.text, areq.messageID)
    /\ apc' = "returned"
    /\ UNCHANGED <<variant, appSecret, env, other, apiOk, areq, aresp, handlerVars, taskVars, prodVars,
                   chanVars, sel, ctx, deadlineMark>>

SendSpec == SendInit /\ [][CallSendReply]_vars

(***************************************************************************)
(* The other endpoints: RegisterRoutes, AuthMiddleware, HealthCheck,       *)
(* HandleWhatsAppWebhookGet, SendEmail and Service.Send                    *)
(***************************************************************************)
GetWebhook == "GET /api/v1/whatsapp/webhook"
PostWebhook == "POST /api/v1/whatsapp/webhook"
GetHealth == "GET /api/v1/health"
PostEmail == "POST /api/v1/emails/send"

\* the routes registered on the group that uses AuthMiddleware
Protected(route) == route \in {GetHealth, PostEmail}

\* strings.ToLower, on ASCII
RECURSIVE ToLower(_)
ToLower(str) ==
    IF str = "" THEN ""
    ELSE LET upper == "ABCDEFGHIJKLMNOPQRSTUVWXYZ"
             lower == "abcdefghijklmnopqrstuvwxyz"
             c == SubSeq(str, 1, 1)
             hit == {i \in 1..Len(upper) : SubSeq(upper, i, i) = c}
         IN  (IF hit = {} THEN c
              ELSE LET i == CHOOSE i \in hit : TRUE IN SubSeq(lower, i, i))
             \o ToLower(SubSeq(str, 2, Len(str)))

\* strings.Split(str, " ")
RECURSIVE Split(_)
Split(str) ==
    LET sp == {i \in 1..Len(str) : SubSeq(str, i, i) = " "}
    IN  IF sp = {} THEN <<str>>
        ELSE LET i == CHOOSE i \in sp : \A j \in sp : i <= j
             IN  <<SubSeq(str, 1, i - 1)>> \o Split(SubSeq(str, i + 1, Len(str)))

\* base64.StdEncoding.DecodeString succeeds: groups of four characters of
\* the alphabet, the last one padded with at most two "="
Base64Valid(data) ==
    LET Base64Alphabet ==
            "ABCDEFGHIJKLMNOPQRSTUVWXYZabcdefghijklmnopqrstuvwxyz0123456789+/"
        n == Len(data)
        pad == IF n >= 2 /\ SubSeq(data, n - 1, n) = "==" THEN 2
               ELSE IF n >= 1 /\ SubSeq(data, n, n) = "=" THEN 1
               ELSE 0
    IN  /\ n % 4 = 0
        /\ \A i \in 1..(n - pad) :
              \E k \in 1..Len(Base64Alphabet) :
                  SubSeq(Base64Alphabet, k, k) = SubSeq(data, i, i)

\* ShouldBindJSON into SendEmailRequest succeeds: the body is JSON, "to" has
\* at least one element, "subject" and "body" are not empty
Binds(json) ==
    /\ json.valid
    /\ Len(json.to) >= 1
    /\ json.subject # ""
    /\ json.body # ""

\* Service.Send: the error it returns ("" for nil) and whether it dialled
Send_DialFirst(msg, smtp, dialOk) ==
    IF ~dialOk THEN [err |-> "dial", dialed |-> TRUE]
    ELSE IF Len(msg.to) = 0 THEN [err |-> "no recipients specified", dialed |-> TRUE]
    ELSE IF ~smtp THEN [err |-> "SMTP credentials not configured", dialed |-> TRUE]
    ELSE [err |-> "", dialed |-> TRUE]

Send(msg, smtp, dialOk) ==
    IF Len(msg.to) = 0 THEN [err |-> "no recipients specified", dialed |-> FALSE]
    ELSE IF ~smtp THEN [err |-> "SMTP credentials not configured", dialed |-> FALSE]
    ELSE IF ~dialOk THEN [err |-> "dial", dialed |-> TRUE]
    ELSE [err |-> "", dialed |-> TRUE]

\* the comparison of HandleWhatsAppWebhookGet
Verified_TokenOnly(mode, token, configured) == token = configured
Verified(mode, token, configured) == mode = "subscribe" /\ token = configured

\* the tests of AuthMiddleware: the status it aborts with, 0 when it calls
\* c.Next()
AuthStatus_FirstPartOnly(authHeader, apiKey) ==
    IF apiKey = "" THEN 500
    ELSE IF authHeader = "" THEN 401
    ELSE LET parts == Split(authHeader)
         IN  IF ToLower(parts[1]) # "bearer" THEN 401
             ELSE IF Len(parts) < 2 \/ parts[2] # apiKey THEN 401
             ELSE 0

AuthStatus(authHeader, apiKey) ==
    IF apiKey = "" THEN 500
    ELSE IF authHeader = "" THEN 401
    ELSE LET parts == Split(authHeader)
         IN  IF Len(parts) # 2 \/ ToLower(parts[1]) # "bearer" THEN 401
             ELSE IF parts[2] # apiKey THEN 401
             ELSE 0

AuthHeaders ==
    {"", "key", "Bearer key", "bearer key", "BEARER key", "Basic key", "Bearer wrong",
     "Bearer  key", "Bearer key ", "Bearer k y", "Bearer ", "Bearerkey"}

EmailBodies ==
    {[valid |-> v, to |-> to, subject |-> sub, body |-> "text", attachments |-> att] :
        v \in BOOLEAN, to \in {<<>>, <<"a@b.c">>}, sub \in {"", "s"},
        att \in {<<>>, <<"">>, <<"YQ==">>, <<"YWJj", "YQ">>, <<"Y!==">>, <<"YQ=">>}}

\* the requests to the four routes; a query parameter that is absent reads ""
ApiRequests ==
    {[route |-> GetWebhook, authorization |-> "", mode |-> m, token |-> t, challenge |-> ch] :
        m \in {"subscribe", "Subscribe", "unsubscribe", ""}, t \in {"", "vt", "vx"},
        ch \in {"", "c1", "c2"}}
    \cup {[route |-> PostWebhook, authorization |-> ""]}
    \cup {[route |-> GetHealth, authorization |-> h] : h \in AuthHeaders}
    \cup {[route |-> PostEmail, authorization |-> h, json |-> j] :
             h \in AuthHeaders, j \in EmailBodies}

\* Service.Send called on its own
DirectSends ==
    {[route |-> "Service.Send", msg |-> [to |-> to, subject |-> "s", body |-> "text",
                                       attachments |-> <<>>]] :
        to \in {<<>>, <<"a@b.c">>}}

Envs ==
    {[verifyToken |-> vt, apiKey |-> k, smtp |-> c] :
        vt \in {"", "vt"}, k \in {"", "key", "k y"}, c \in BOOLEAN}

ApiInit ==
    /\ variant \in {"interval", "idle"}
    /\ appSecret = "k"
    /\ env \in Envs
    /\ other = NoOther
    /\ apiOk = TRUE
    /\ \/ areq \in ApiRequests /\ apc = "arrived"
       \/ areq \in DirectSends /\ apc = "call"
    /\ aresp = NoApiResp
    /\ NoRelay

ApiUnchanged ==
    UNCHANGED <<variant, appSecret, env, other, apiOk, areq, handlerVars, taskVars, prodVars,
                chanVars, sel, ctx, outbound, deadlineMark>>

Answer(st, b) == [aresp EXCEPT !.status = st, !.body = b]

\* the router: the protected group runs AuthMiddleware before the handler
Dispatch ==
    /\ apc = "arrived"
    /\ apc' = IF Protected(areq.route) THEN "auth" ELSE "handler"
    /\ UNCHANGED aresp
    /\ ApiUnchanged

\* AuthMiddleware: aborts with 500 or 401, or calls c.Next()
AuthMiddleware ==
    /\ apc = "auth"
    /\ LET st == AuthStatus(areq.authorization, env.apiKey)
       IN  IF st = 0
           THEN apc' = "handler" /\ UNCHANGED aresp
           ELSE apc' = "done" /\ aresp' = Answer(st, "error")
    /\ ApiUnchanged

HealthCheck ==
    /\ apc = "handler"
    /\ areq.route = GetHealth
    /\ aresp' = [Answer(200, "ok") EXCEPT !.reached = TRUE]
    /\ apc' = "done"
    /\ ApiUnchanged

HandleWhatsAppWebhookGet ==
    /\ apc = "handler"
    /\ areq.route = GetWebhook
    /\ aresp' = IF Verified(areq.mode, areq.token, env.verifyToken)
                THEN [Answer(200, areq.challenge) EXCEPT !.reached = TRUE]
                ELSE [Answer(403, "") EXCEPT !.reached = TRUE]
    /\ apc' = "done"
    /\ ApiUnchanged

\* the POST webhook handler is entered; what it does is HandlerNext
WebhookPostEntered ==
    /\ apc = "handler"
    /\ areq.route = PostWebhook
    /\ aresp' = [aresp EXCEPT !.reached = TRUE]
    /\ apc' = "done"
    /\ ApiUnchanged

\* SendEmail: binding fails, or an attachment does not decode
SendEmailBadRequest ==
    /\ apc = "handler"
    /\ areq.route = PostEmail
    /\ \/ ~Binds(areq.json)
       \/ \E i \in 1..Len(areq.json.attachments) : ~Base64Valid(areq.json.attachments[i])
    /\ aresp' = [Answer(400, "error") EXCEPT !.reached = TRUE]
    /\ apc' = "done"
    /\ ApiUnchanged

\* SendEmail: the message is handed to Service.Send, whose dial may fail
SendEmail ==
    /\ apc = "handler"
    /\ areq.route = PostEmail
    /\ Binds(areq.json)
    /\ \A i \in 1..Len(areq.json.attachments) : Base64Valid(areq.json.attachments[i])
    /\ \E dialOk \in BOOLEAN :
          LET r == Send(areq.json, env.smtp, dialOk)
          IN  aresp' = [status |-> IF r.err = "" THEN 200 ELSE 500,
                        body |-> IF r.err = "" THEN "Email sent successfully"
                                 ELSE "Failed to send email: " \o r.err,
                        reached |-> TRUE, sendCalls |-> aresp.sendCalls + 1,
                        sendErr |-> r.err, dialed |-> r.dialed]
    /\ apc' = "done"
    /\ ApiUnchanged

\* Service.Send called on its own
CallSend ==
    /\ apc = "call"
    /\ areq.route = "Service.Send"
    /\ \E dialOk \in BOOLEAN :
          LET r == Send(areq.msg, env.smtp, dialOk)
          IN  aresp' = [aresp EXCEPT !.sendCalls = aresp.sendCalls + 1, !.sendErr = r.err,
                                     !.dialed = r.dialed]
    /\ apc' = "returned"
    /\ ApiUnchanged

ApiNext ==
    \/ Dispatch
    \/ AuthMiddleware
    \/ HealthCheck
    \/ HandleWhatsAppWebhookGet
    \/ WebhookPostEntered
    \/ SendEmailBadRequest
    \/ SendEmail
    \/ CallSend

ApiSpec == ApiInit /\ [][ApiNext]_vars

(***************************************************************************)
(* Properties                                                              *)
(***************************************************************************)
Last(q) == q[Len(q)]

\* the header is the hex HMAC of the body under the configured secret, bare
\* or behind "sha256="
SignatureMatches(r) ==
    LET d == HmacHex(appSecret, r.body) IN r.header = d \/ r.header = SigPrefix \o d

\* C1: a POST whose signature header is not the HMAC of its body (an absent
\* header included) is answered 403, spawns no processing task and causes no
\* call to the messaging API, neither a reply nor a read receipt.
C1_InvalidSignatureRejected ==
    (hpc = "done" /\ req.readOk /\ ~SignatureMatches(req)) =>
        /\ status = 403
        /\ spawned = 0
        /\ tpc = "none"
        /\ ppc = "none"
        /\ sends = <<>>
        /\ outbound = <<>>

\* a text message whose header is the valid signature of another body
C1_Witness ==
    /\ hpc = "done"
    /\ status = 403
    /\ req.readOk
    /\ HasTextMessage(req.body)
    /\ \E b \in Bodies : b # req.body /\ req.header = SigPrefix \o HmacHex(appSecret, b)

C10_HandlerNeverWaits ==
    /\ hpc = "spawned" => ENABLED MarkReadCall
    /\ hpc = "markread" => ENABLED MarkReadAndRespond
    /\ (hpc = "done" /\ spawned > 0) => status = 200

\* the handler has answered 200 while the spawned task has taken no step
C10_Witness ==
    /\ hpc = "done"
    /\ status = 200
    /\ spawned = 1
    /\ tpc = TaskStart
    /\ ctx = "none"
    /\ sends = <<>>

ErrTexts == { ErrorMessage(e) : e \in {ErrCreate, ErrCommunicate, ErrStatus, ErrRead} }

\* the number of the task's sends whose text is in S
CountSends(S) == Cardinality({ i \in DOMAIN sends : sends[i].text \in S })

\* C2 as claimed: when the producer has put an upstream failure on errChan
\* (while the context was live), the task sends exactly one error message
\* before it returns, whatever the interleaving.
C2_ErrorAlwaysReported ==
    (tpc = "done" /\ upFail) => CountSends(ErrTexts) = 1

\* the task receives an event of the given kind in this step
ConsumesKind(k) ==
    /\ consumed' # consumed
    /\ Last(consumed').event = k

NoSendAfterReturn == [][tpc = "done" => sends' = sends]_vars

\* C3 as claimed: on consuming message_end the task sends a non-empty buffer
\* once as the final message and returns (an empty buffer: no send), and
\* sends nothing after that.
C3_MessageEndTerminates ==
    /\ [][ConsumesKind("message_end") =>
            IF fullAnswer = ""
            THEN tpc' = "done" /\ sends' = sends
            ELSE tpc' = "send_end" /\ out' = fullAnswer /\ sends' = sends]_vars
    /\ [][(tpc = "send_end" /\ tpc' # "send_end") =>
            (sends' = Append(sends, SendRec(out)) /\ tpc' = "done")]_vars
    /\ NoSendAfterReturn

RECURSIVE ConcatTexts(_)
ConcatTexts(q) == IF q = <<>> THEN "" ELSE Head(q).text \o ConcatTexts(Tail(q))

RECURSIVE ConcatAnswers(_, _)
ConcatAnswers(q, kinds) ==
    IF q = <<>> THEN ""
    ELSE (IF Head(q).event \in kinds THEN Head(q).answer ELSE "")
             \o ConcatAnswers(Tail(q), kinds)

\* the task's answer sends: every send but the acknowledgement
AnswerSends == SelectSeq(sends, LAMBDA m : m.text # InitialResponse)

\* the content kind the running variant accumulates
ContentKinds == IF variant = "interval" THEN {"message_delta"} ELSE {"agent_message"}

\* message_start, if any, opens the stream
StartOnlyFirst(q) == \A i \in DOMAIN q : q[i].event = "message_start" => i = 1

\* C4 as claimed: for a stream that completes without error or timeout, the
\* answer sends concatenated in order equal the concatenation of the answer
\* fragments the task received; nothing is sent twice, nothing is omitted.
C4_SendsEqualAnswer ==
    (/\ tpc = "done"
     /\ term \in {"close", "message_end"}
     /\ errPuts = 0
     /\ ctx # "deadline"
     /\ StartOnlyFirst(consumed))
        => ConcatTexts(AnswerSends) = ConcatAnswers(consumed, ContentKinds)

\* C5 as claimed: when the deadline fires mid-stream (the task parked in its
\* select or inside a partial send), all the task sends from then on is the
\* timeout notice, once: no buffered answer, no error message.
C5_OnlyTimeoutNotice ==
    (tpc = "done" /\ deadlineMark >= 0) =>
        /\ Len(sends) = deadlineMark + 1
        /\ Last(sends).text = TimeoutMessage

\* C6 as claimed: once the task has returned (its context is cancelled), the
\* producer goroutine is never stuck: until it has exited it can take a step.
C6_ProducerNeverStuck ==
    (tpc = "done" /\ ppc \notin {"none", "exited"}) =>
        (CtxDone /\ ENABLED ProducerNext)

\* C7 as claimed: on consuming an error event the task drops its buffer,
\* sends the error text as one message and returns with no further send.
C7_ErrorEventTerminates ==
    /\ [][ConsumesKind("error") =>
            (tpc' = "send_errevent" /\ out' = ErrEventMessage(Last(consumed').error)
                /\ sends' = sends)]_vars
    /\ [][(tpc = "send_errevent" /\ tpc' # "send_errevent") =>
            (sends' = Append(sends, SendRec(out)) /\ tpc' = "done")]_vars
    /\ NoSendAfterReturn

HasKind(q, k) == \E i \in DOMAIN q : q[i].event = k

\* the task takes the branch of a closed, drained responseChan in this step
TakesCloseBranch == sel = "resp" /\ respChan = <<>> /\ sel' = "none"

\* C8: if responseChan closes with no message_end, no error and no deadline,
\* the task returns on the close branch, where it sends the remaining buffer
\* exactly once when it is non-empty, nothing when it is empty, and nothing
\* after it has returned.
C8_CloseFlushesOnce ==
    /\ []((/\ tpc = "done"
           /\ ~HasKind(consumed, "message_end")
           /\ ~HasKind(consumed, "error")
           /\ errPuts = 0
           /\ ctx # "deadline") => term = "close")
    /\ [][TakesCloseBranch =>
            IF fullAnswer = ""
            THEN tpc' = "done" /\ sends' = sends
            ELSE tpc' = "send_close" /\ out' = fullAnswer /\ sends' = sends]_vars
    /\ [][(tpc = "send_close" /\ tpc' # "send_close") =>
            (sends' = Append(sends, SendRec(fullAnswer)) /\ tpc' = "done")]_vars
    /\ NoSendAfterReturn

\* the stream ended without message_end and the buffered answer went out once
C8_Witness ==
    /\ tpc = "done"
    /\ term = "close"
    /\ ~HasKind(consumed, "message_end")
    /\ errPuts = 0
    /\ ctx = "canceled"
    /\ Len(consumed) = 2
    /\ AnswerSends = <<SendRec("abc")>>

\* C11 as claimed: marking the message as read is fire-and-forget: while the
\* read-receipt call is in flight the handler can issue its 200 response
\* without the call having returned.
C11_RespondsWhileReadInFlight ==
    readCall = "inflight" =>
        ENABLED (HandlerNext /\ status' = 200 /\ readCall' = "inflight")

\* entry[0].changes[0].value.messages[0] exists and has type "text"
FirstMessageIsText(b) ==
    /\ Len(b.entry) > 0
    /\ Len(b.entry[1].changes) > 0
    /\ Len(b.entry[1].changes[1].messages) > 0
    /\ b.entry[1].changes[1].messages[1].type = "text"

\* C12: a POST spawns at most one processing task, and only when the first
\* message of the first change of the first entry exists and is a text
\* message; every other signed POST spawns no task and causes no reply and
\* no read receipt.
C12_AtMostOneTaskOnlyForText ==
    /\ spawned <= 1
    /\ spawned = 1 => (SignatureMatches(req) /\ FirstMessageIsText(req.body))
    /\ (hpc = "done" /\ req.readOk /\ SignatureMatches(req)
            /\ ~FirstMessageIsText(req.body)) =>
         /\ spawned = 0
         /\ tpc = "none"
         /\ sends = <<>>
         /\ outbound = <<>>

\* a signed POST whose first message is an image and whose second is a text
\* has been answered with nothing spawned and nothing sent
C12_Witness ==
    /\ hpc = "done"
    /\ status = 200
    /\ SignatureMatches(req)
    /\ Len(FirstMessages(req.body)) = 2
    /\ FirstMessages(req.body)[2].type = "text"
    /\ spawned = 0
    /\ outbound = <<>>

\* C13 as claimed: with the app secret empty (unset) VerifyWebhook returns
\* false for every body and every signature header.
C13_EmptySecretRejectsAll ==
    (appSecret = "" /\ hpc # "idle" /\ req.readOk) =>
        ~VerifyWebhook(req.body, req.header)

\* the header without its optional "sha256=" prefix
Stripped(h) ==
    IF Len(h) >= 7 /\ SubSeq(h, 1, 7) = "sha256=" THEN SubSeq(h, 8, Len(h)) ELSE h

\* two strings differ in length or in at least one position
Differs(a, b) ==
    \/ Len(a) # Len(b)
    \/ \E i \in 1..Len(a) : SubSeq(a, i, i) # SubSeq(b, i, i)

\* C14: VerifyWebhook returns true when the header is the hex HMAC of the
\* body under the configured secret, with or without the "sha256=" prefix,
\* and false for every header whose digest differs from the computed one in
\* at least one position; the handler rejects exactly the latter with 403.
C14_VerifyMatchesDigest ==
    (hpc # "idle" /\ req.readOk) =>
        LET d == HmacHex(appSecret, req.body) IN
        /\ (req.header = d \/ req.header = "sha256=" \o d)
                => VerifyWebhook(req.body, req.header)
        /\ Differs(Stripped(req.header), d) => ~VerifyWebhook(req.body, req.header)
        /\ hpc = "done" =>
                (status = 403 <=> Differs(Stripped(req.header), d))

\* a prefixed header whose digest is the body's with its last digit altered
\* has been rejected
C14_Witness ==
    /\ hpc = "done"
    /\ status = 403
    /\ req.readOk
    /\ appSecret # ""
    /\ req.header = "sha256=" \o AlterAt(HmacHex(appSecret, req.body), 3)

\* the decoder reads a blank line while a payload is pending: the frame ends
EndsFrame ==
    /\ ppc = "scan"
    /\ linesRead' = linesRead + 1
    /\ eventData # <<>>
    /\ eventData' = <<>>
    /\ ppc' # "close_err"

\* C15 as claimed: every well-formed data line yields one event, in arrival
\* order, with or without blank lines between the data lines: so when a blank
\* line ends a run of well-formed data lines, the first of them is handed to
\* the event channel.
C15_EveryDataLineYieldsEvent ==
    [][(EndsFrame /\ \A i \in DOMAIN eventData : eventData[i].json) =>
            (ppc' = "emit" /\ pending' = eventData[1])]_vars

\* C16: a payload that fails JSON decoding is dropped (logged), no error is
\* put on the error channel and neither channel is touched, and the stream
\* goes on; a well-formed payload framed after it is handed to the event
\* channel, which receives events in hand-over order.
C16_MalformedPayloadDropped ==
    /\ [][(EndsFrame /\ \E i \in DOMAIN eventData : ~eventData[i].json) =>
            /\ ppc' = "scan"
            /\ parseErrors' = parseErrors + 1
            /\ UNCHANGED <<pending, respChan, respClosed, errChan, errClosed, errPuts>>]_vars
    /\ [][(EndsFrame /\ Len(eventData) = 1 /\ eventData[1].json) =>
            (ppc' = "emit" /\ pending' = eventData[1])]_vars
    /\ [][(ppc = "emit" /\ ppc' # "emit") =>
            (respChan' = Append(respChan, pending) /\ errChan' = errChan)]_vars

\* after a malformed payload was dropped, a well-formed event has been put
\* on the event channel and received by the task, with no error reported
C16_Witness ==
    /\ parseErrors = 1
    /\ linesRead = 4
    /\ ppc = "scan"
    /\ ~CtxDone
    /\ errPuts = 0
    /\ Len(consumed) = 1
    /\ consumed[1].event = "message_end"
    /\ term = ""

\* minChunkSize of the running variant
MinChunk == IF variant = "interval" THEN MinChunkInterval ELSE MinChunkIdle

\* the task receives, in this step, an event of the kind its variant
\* accumulates, with a non-empty answer
ConsumesContent ==
    /\ consumed' # consumed
    /\ Last(consumed').event \in ContentKinds
    /\ Last(consumed').answer # ""

\* C17 as claimed: on each content-bearing event the task flushes a partial
\* message if and only if the time since the last flush exceeds
\* minSendInterval and the buffered text is at least minChunkSize; otherwise
\* it keeps accumulating and sends nothing.
C17_FlushIffBothThresholds ==
    /\ [][ConsumesContent =>
            IF intervalPassed /\ Len(fullAnswer') >= MinChunk
            THEN tpc' = "send_partial" /\ out' = fullAnswer'
            ELSE tpc' = tpc /\ out' = out /\ sends' = sends]_vars
    /\ [][(tpc = "send_partial" /\ tpc' # "send_partial") =>
            (sends' = Append(sends, SendRec(out)) /\ fullAnswer' = "")]_vars

\* C18 as claimed: when the task waits in its select with a buffer of at
\* least minChunkSize and no event arrives within the idle window, the idle
\* timer makes it flush the buffer once as a partial message (the buffer is
\* reset, so the same idle period flushes nothing more); below minChunkSize
\* the timer sends nothing.
C18_IdleFlushOnce ==
    /\ []((tpc = "select" /\ sel = "parked" /\ Len(fullAnswer) >= MinChunk)
            => ENABLED IdleTimerFires)
    /\ [][(sel = "idle" /\ sel' # "idle") =>
            IF Len(fullAnswer) >= MinChunk
            THEN tpc' = "send_idle" /\ out' = fullAnswer /\ sends' = sends
            ELSE tpc' = tpc /\ sends' = sends /\ fullAnswer' = fullAnswer]_vars
    /\ [][(tpc = "send_idle" /\ tpc' # "send_idle") =>
            (sends' = Append(sends, SendRec(out)) /\ fullAnswer' = "")]_vars

\* the fixed notices and error texts a task can send
NoticeTexts ==
    {InitialResponse, TimeoutMessage} \cup ErrTexts
        \cup { ErrEventMessage(e.error) : e \in Events }

\* C19 as claimed: for a stream that completes normally (content, then
\* message_end, no error, no deadline) every send of the task is a flushed answer
\* chunk: no acknowledgement and no other extra message is sent.
C19_OnlyAnswerChunksSent ==
    (/\ tpc = "done"
     /\ term \in {"close", "message_end"}
     /\ \E k \in ContentKinds : HasKind(consumed, k)
     /\ Last(consumed).event = "message_end"
     /\ ~HasKind(consumed, "error")
     /\ errPuts = 0
     /\ ctx # "deadline")
        => \A i \in DOMAIN sends : sends[i].text \notin NoticeTexts

\* the inbound message the task answers: the first of the first change
Inbound == req.body.entry[1].changes[1].messages[1]

\* C20: every message the task sends (partial, final, error message or
\* timeout notice) goes through the business number of the inbound message,
\* is addressed to its sender and carries its ID as reply context, both in
\* the sendReplyMessage call and in the request posted to the messaging API.
C20_RepliesAddressInbound ==
    /\ \A i \in DOMAIN sends :
          /\ sends[i].to = Inbound.from
          /\ sends[i].messageID = Inbound.id
          /\ sends[i].phoneNumberID = req.body.entry[1].changes[1].phone
    /\ \A i \in DOMAIN outbound :
          outbound[i].api = "reply" =>
              (outbound[i].to = Inbound.from /\ outbound[i].messageID = Inbound.id)

\* a task answering the first of two text messages from different senders
\* has sent an answer chunk and then the timeout notice
C20_Witness ==
    /\ tpc = "done"
    /\ Len(FirstMessages(req.body)) = 2
    /\ FirstMessages(req.body)[2].from # FirstMessages(req.body)[1].from
    /\ Len(AnswerSends) = 2
    /\ AnswerSends[1].text = "bc"
    /\ AnswerSends[2].text = TimeoutMessage
    /\ Len(outbound) >= 3

FailedSend ==
    /\ Len(outbound') = Len(outbound) + 1
    /\ ~Last(outbound').ok
    /\ Last(outbound').api = "reply"

C23_FailedSendNotRepeated ==
    /\ [](status = 200 /\ hpc = "done")
    /\ [](Len(outbound) <= Len(sends) + 1)
    /\ [][FailedSend /\ Len(fullAnswer) > 0 /\ Last(sends').text = fullAnswer
            => tpc' = "done" \/ fullAnswer' # fullAnswer]_vars

\* the number of characters of a string of bytes, and the bytes that its
\* first n characters take
LeadBytes(s) == {i \in 1..Len(s) : SubSeq(s, i, i) # "w"}
Chars(s) == Cardinality(LeadBytes(s))

RECURSIVE NthLead(_, _, _, _)
NthLead(L, m, lo, hi) ==
    IF lo = hi THEN lo
    ELSE LET mid == (lo + hi) \div 2
         IN  IF Cardinality({i \in L : i <= mid}) >= m
             THEN NthLead(L, m, lo, mid)
             ELSE NthLead(L, m, mid + 1, hi)

FirstChars(s, n) ==
    IF Chars(s) <= n THEN s
    ELSE SubSeq(s, 1, NthLead(LeadBytes(s), n + 1, 1, Len(s)) - 1)

\* C24: sendReplyMessage never transmits more than 4000 characters: a text of
\* more than 4000 characters goes out as its first 3997 characters followed
\* by "...", a text of at most 4000 characters goes out unchanged.
C24_TruncatesByCharacters ==
    (apc = "returned" /\ areq.route = "sendReplyMessage" /\ outbound # <<>>) =>
        /\ Chars(outbound[1].text) <= MaxReplyLen
        /\ outbound[1].text =
               IF Chars(areq.text) > MaxReplyLen
               THEN FirstChars(areq.text, TruncatedLen) \o "..."
               ELSE areq.text

\* C25: sendReplyMessage called with an empty text makes no call to the
\* messaging API.
C25_EmptyTextIsNoOp ==
    (apc = "returned" /\ areq.route = "sendReplyMessage" /\ areq.text = "") =>
        outbound = <<>>

\* C26: GET webhook answers 200 with the challenge exactly when hub.mode is
\* "subscribe" and hub.verify_token equals the configured token, and 403 in
\* every other case.
C26_VerifyEchoesChallenge ==
    (apc = "done" /\ areq.route = GetWebhook) =>
        IF areq.mode = "subscribe" /\ areq.token = env.verifyToken
        THEN aresp.status = 200 /\ aresp.body = areq.challenge
        ELSE aresp.status = 403

C26_Witness ==
    /\ apc = "done"
    /\ areq.route = GetWebhook
    /\ areq.mode = "subscribe"
    /\ areq.token = "vt"
    /\ env.verifyToken = "vt"
    /\ areq.challenge = "c1"
    /\ aresp.body = "c1"

\* C27: a request to a protected endpoint reaches its handler only if
\* DIFYGATE_API_KEY is set and the Authorization header is exactly
\* "Bearer <that key>"; every other request is answered 500 when the key is
\* not set and 401 otherwise; the webhook endpoints are reached without an
\* Authorization header.
Rejected == ~aresp.reached /\ aresp.status = IF env.apiKey = "" THEN 500 ELSE 401

C27_OnlyExactBearer ==
    apc = "done" =>
        IF Protected(areq.route)
        THEN ~(env.apiKey # "" /\ areq.authorization = "Bearer " \o env.apiKey) => Rejected
        ELSE aresp.reached

\* C27, amended: ... and the Authorization header is the word "Bearer" in any
\* letter case, one space, and that key; ...
BearerAnyCase(authHeader, apiKey) ==
    /\ Len(authHeader) = 7 + Len(apiKey)
    /\ ToLower(SubSeq(authHeader, 1, 6)) = "bearer"
    /\ SubSeq(authHeader, 7, 7) = " "
    /\ SubSeq(authHeader, 8, Len(authHeader)) = apiKey

C27_OnlyBearerAnyCase ==
    apc = "done" =>
        IF Protected(areq.route)
        THEN ~(env.apiKey # "" /\ BearerAnyCase(areq.authorization, env.apiKey)) => Rejected
        ELSE aresp.reached

C27_Witness ==
    /\ apc = "done"
    /\ areq.route = GetHealth
    /\ env.apiKey = "key"
    /\ areq.authorization = "bearer key"
    /\ aresp.reached
    /\ aresp.status = 200

\* C28: POST /emails/send answers 200 "Email sent successfully" only after
\* Service.Send returned nil; a body that does not bind or an attachment that
\* is not valid base64 gives 400 and Send is never called; an error of Send
\* gives 500; Send called without recipients or without SMTP credentials
\* returns its error before any dial.
Undecodable(json) ==
    \E i \in 1..Len(json.attachments) :
        json.attachments[i] \notin {"", "YQ==", "YWJj"}

C28_EmailStatusFollowsSend ==
    /\ (apc = "done" /\ areq.route = PostEmail /\ aresp.reached) =>
          /\ aresp.status = 200 =>
                /\ aresp.body = "Email sent successfully"
                /\ aresp.sendCalls = 1
                /\ aresp.sendErr = ""
          /\ (~areq.json.valid \/ areq.json.to = <<>> \/ areq.json.subject = ""
                \/ Undecodable(areq.json)) =>
                aresp.status = 400 /\ aresp.sendCalls = 0
          /\ (aresp.sendCalls = 1 /\ aresp.sendErr # "") => aresp.status = 500
          /\ aresp.status \in {200, 400, 500}
    /\ (aresp.sendCalls = 1 /\ (~env.smtp \/ (apc = "returned" /\ areq.msg.to = <<>>))) =>
          aresp.sendErr # "" /\ ~aresp.dialed

C28_Witness ==
    /\ apc = "done"
    /\ areq.route = PostEmail
    /\ aresp.status = 500
    /\ aresp.sendCalls = 1
    /\ ~env.smtp
    /\ ~aresp.dialed

\* C29: when the upstream request fails in transport or is answered with a
\* status other than 200, the stream client makes no second attempt, puts
\* exactly one error on the error channel and no event on the event channel,
\* and closes both channels.
Closing == {"close_err", "close_resp", "exited"}

C29_UpstreamFailureOneError ==
    /\ [](ppc \in {"new", "do"} =>
            errPuts = 0 /\ respChan = <<>> /\ consumed = <<>> /\ ~errClosed /\ ~respClosed)
    /\ [][(ppc = "do" /\ errPuts' # errPuts) =>
            errPuts' = 1 /\ ppc' = "close_err" /\ respChan' = <<>>]_vars
    /\ [][(ppc \in Closing) =>
            (ppc' \in Closing /\ errPuts' = errPuts /\ Len(respChan') <= Len(respChan))]_vars
    /\ (ppc = "close_err") ~> (errClosed /\ respClosed)

C29_Witness ==
    /\ ppc = "exited"
    /\ errChan = <<ErrStatus>>
    /\ linesRead = 0
    /\ errClosed
    /\ respClosed

\* C30: once the context is done (cancelled or past its deadline), the stream
\* client puts no further event on the response channel.
C30_NoEventAfterCancel ==
    [][CtxDone => Len(respChan') <= Len(respChan)]_vars

C31_BothKindsAppended ==
    [][(/\ consumed' # consumed
        /\ Last(consumed').event \in {"message_delta", "agent_message"}
        /\ Last(consumed').answer # "")
          => fullAnswer' = fullAnswer \o Last(consumed').answer]_vars

\* C32: the sends of a task are sequential and in the order in which the
\* flushes were decided: while a send has not returned the task takes nothing
\* from its channels and no select case is chosen, every send is the one that
\* was decided last, and events are taken from the head of the channel to
\* which the decoder appends.
SendPcs ==
    {"send_error", "send_close", "send_timeout", "send_partial", "send_end",
     "send_errevent", "send_idle"}

TerminalTexts ==
    {TimeoutMessage} \cup ErrTexts \cup { ErrEventMessage(e.error) : e \in Events }

C33_OneTerminalNotice ==
    /\ \A i \in DOMAIN sends :
          sends[i].text \in TerminalTexts => i = Len(sends) /\ tpc = "done"
    /\ CountSends(TerminalTexts) <= 1

C33_Witness ==
    /\ tpc = "done"
    /\ term = "timeout"
    /\ errPuts = 1
    /\ Last(sends).text = TimeoutMessage

\* C34: on every exit path of the producer the error channel is closed, then
\* the response channel, each once: neither is closed before the producer
\* leaves its body, and nothing is put on a channel that has been closed.
C34_ClosedOnceErrFirst ==
    /\ [](ppc \notin Closing => ~errClosed /\ ~respClosed)
    /\ [](ppc = "close_err" => ~errClosed /\ ~respClosed)
    /\ [](ppc = "close_resp" => errClosed /\ ~respClosed)
    /\ [](ppc = "exited" => errClosed /\ respClosed)
    /\ [][errClosed => errClosed' /\ errPuts' = errPuts /\ Len(errChan') <= Len(errChan)]_vars
    /\ [][respClosed => respClosed' /\ Len(respChan') <= Len(respChan)]_vars
    /\ (ppc = "close_err") ~> (ppc = "exited")

C34_Witness ==
    /\ ppc = "exited"
    /\ errClosed
    /\ respClosed
    /\ errPuts = 0
    /\ Len(consumed) > 0

\* C35: at most one error is put on the error channel per stream, so the
\* put never waits for room in the channel of capacity 1: while the producer
\* is in its body nothing has been put, and each of its error branches can
\* be taken, also after the task has returned.
C35_OneErrorNeverBlocks ==
    /\ errPuts <= 1
    /\ Len(errChan) <= ErrChanCap
    /\ (ppc \in {"new", "do", "scan", "emit"} => errPuts = 0 /\ errChan = <<>>)
    /\ (ppc = "new" => ENABLED ProdNewRequestFails)
    /\ (ppc = "do" => ENABLED ProdDoFails)
    /\ (ppc = "scan" => ENABLED ProdScanError)

C35_Witness ==
    /\ tpc = "done"
    /\ term = "message_end"
    /\ ppc = "exited"
    /\ errChan = <<ErrRead>>

\* C36: the decoder hands over an event only when it reads a blank line, and
\* then at most one: the event decoded from all the data lines read since
\* the previous blank line, taken as one payload; a data line only extends
\* the pending payload; a payload pending when the stream ends is dropped.
ReadsLine == ppc = "scan" /\ linesRead' = linesRead + 1

SinceStart(q) ==
    LET starts == {i \in DOMAIN q : q[i].event = "message_start"}
    IN  IF starts = {} THEN q
        ELSE SubSeq(q, (CHOOSE i \in starts : \A j \in starts : j <= i) + 1, Len(q))

IsSuffix(s, t) == Len(s) <= Len(t) /\ SubSeq(t, Len(t) - Len(s) + 1, Len(t)) = s

C37_StartDiscardsBuffer ==
    /\ [][(variant = "idle" /\ ConsumesKind("message_start")) =>
            (fullAnswer' = "" /\ sends' = sends /\ tpc' = tpc)]_vars
    /\ [](variant = "idle" =>
            IsSuffix(fullAnswer, ConcatAnswers(SinceStart(consumed), {"agent_message"})))
    /\ [][(variant = "idle" /\ sends' # sends /\ Last(sends').text \notin NoticeTexts) =>
            Last(sends').text = fullAnswer]_vars

C37_Witness ==
    /\ variant = "idle"
    /\ consumed = <<Event("agent_message", "a", ""), Event("message_start", "", "")>>
    /\ tpc = "done"
    /\ term = "close"
    /\ sends = <<>>

\* C38: an event the task does not handle (a kind its switch has no case
\* for, or a content event whose answer is empty) leaves the buffer and the
\* flush bookkeeping unchanged and starts no outbound send.
HandledKinds ==
    IF variant = "interval" THEN {"message_delta", "message_end"}
    ELSE {"message_start", "agent_message", "message_end", "error"}

ContentKind == IF variant = "interval" THEN "message_delta" ELSE "agent_message"

Unhandled(e) ==
    \/ e.event \notin HandledKinds
    \/ e.event = ContentKind /\ e.answer = ""

C38_UnhandledEventIgnored ==
    [][(consumed' # consumed /\ Unhandled(Last(consumed'))) =>
         UNCHANGED <<fullAnswer, lastChunkSize, intervalPassed, sends, out, tpc, term,
                     outbound>>]_vars

C38_Witness ==
    /\ fullAnswer = "a"
    /\ tpc = "select"
    /\ Len(consumed) = 2
    /\ consumed[1].answer = "a"
    /\ consumed[2].event = ContentKind
    /\ consumed[2].answer = ""

\* C39: in the interval variant the interval threshold never delays the
\* first flush: the last-flush size is always 0 and the interval counts as
\* passed until a partial send has returned, so a content event taken while
\* no partial send has happened starts a partial flush exactly when the
\* buffer then holds at least minChunkSize characters.
C39_FirstFlushAtMinChunk ==
    /\ [](variant = "interval" => lastChunkSize = 0)
    /\ [][(variant = "interval" /\ intervalPassed /\ ~intervalPassed') =>
            tpc = "send_partial"]_vars
    /\ [][(/\ variant = "interval"
           /\ intervalPassed
           /\ consumed' # consumed
           /\ IsIntervalContent(Last(consumed'))) =>
             ((tpc' = "send_partial") <=> (Chars(fullAnswer') >= MinChunkInterval))]_vars

====
